---- MODULE Spec2Model ----
(***************************************************************************)
(* State-machine model of src/app.py: the batch enrichment pipeline        *)
(* (process_csv and its helpers), the job status registry                  *)
(* (processing_status), the history file (history.json) and the two        *)
(* request handlers that touch them (upload_file, check_download).         *)
(*                                                                         *)
(* Strings whose content the code inspects (cells of the input table) are  *)
(* sequences of one-character strings, so that strip, urlparse and         *)
(* startswith are computed and not assumed.                                *)
(***************************************************************************)
EXTENDS Integers, Sequences, FiniteSets, TLC

----------------------------------------------------------------------------
(* Bounds of the model *)

\* number of upload requests (job ids) in the system
NJobs == 2
\* largest number of data rows of an uploaded table
MaxRows == 21

----------------------------------------------------------------------------
(* Program constants *)

BATCH_SIZE == 10
DELAY_SECONDS == 3
REQUIRED_HEADERS == <<"First Name", "Last Name", "LinkedIn URL", "Company Name", "Company Website">>

Jobs == 1..NJobs

Range(f) == {f[x] : x \in DOMAIN f}

----------------------------------------------------------------------------
(* Python values of a table cell / record field *)

\* a missing cell as pandas reads it
NaN == [t |-> "NaN", s |-> <<>>]
None == [t |-> "None", s |-> <<>>]
Str(s) == [t |-> "str", s |-> s]

\* pd.notna / pd.isna
notna(v) == v.t # "NaN"
\* Python truth value of None or a str: `not v`
Falsy(v) == v.t = "None" \/ (v.t = "str" /\ v.s = <<>>)

Whitespace == {" "}

RECURSIVE lstrip(_, _)
lstrip(s, cs) == IF s # <<>> /\ Head(s) \in cs THEN lstrip(Tail(s), cs) ELSE s

RECURSIVE rstrip(_, _)
rstrip(s, cs) ==
  IF s # <<>> /\ s[Len(s)] \in cs THEN rstrip(SubSeq(s, 1, Len(s) - 1), cs) ELSE s

\* str.strip(chars)
strip(s, cs) == rstrip(lstrip(s, cs), cs)

\* str.find(c) + 1: position of the first c, 0 when there is none
Find(s, c) ==
  IF \E i \in 1..Len(s) : s[i] = c
  THEN CHOOSE i \in 1..Len(s) : s[i] = c /\ \A k \in 1..(i - 1) : s[k] # c
  ELSE 0

\* str.startswith(p)
startswith(s, p) == Len(s) >= Len(p) /\ SubSeq(s, 1, Len(p)) = p

Letters == {"h", "w", "f", "p"}
SchemeChars == Letters \cup {"+", "-", "."}

\* urllib.parse.urlparse on a url without query, fragment or params:
\* an optional scheme "xxx:", then "//netloc" up to the next "/", then the path
urlparse(url) ==
  LET i == Find(url, ":")
      hasScheme == i > 1 /\ url[1] \in Letters /\ \A k \in 1..(i - 1) : url[k] \in SchemeChars
      rest == IF hasScheme THEN SubSeq(url, i + 1, Len(url)) ELSE url
      hasNetloc == Len(rest) >= 2 /\ rest[1] = "/" /\ rest[2] = "/"
      after == SubSeq(rest, 3, Len(rest))
      j == Find(after, "/")
  IN  [netloc |-> IF ~hasNetloc THEN <<>>
                  ELSE IF j = 0 THEN after ELSE SubSeq(after, 1, j - 1),
       path   |-> IF ~hasNetloc THEN rest
                  ELSE IF j = 0 THEN <<>> ELSE SubSeq(after, j, Len(after))]

WWW == <<"w", "w", "w", ".">>

extract_domain(url) ==
  IF url.t # "str" \/ strip(url.s, Whitespace) = <<>> THEN None
  ELSE LET parsed == urlparse(strip(url.s, Whitespace))
           d0 == IF parsed.netloc # <<>> THEN parsed.netloc ELSE parsed.path
           d1 == strip(d0, {"/"})
       IN  Str(IF startswith(d1, WWW) THEN SubSeq(d1, 5, Len(d1)) ELSE d1)

\* `row[c] if pd.notna(row[c]) else None`
ValueOrNone(v) == IF notna(v) THEN v ELSE None
\* `v.strip() if v else None`
StripOrNone(v) == IF Falsy(v) THEN None ELSE Str(strip(v.s, Whitespace))

\* build_request_row returning None
NoRequest ==
  [none |-> TRUE, first_name |-> None, last_name |-> None, linkedin_url |-> None,
   organization_name |-> None, domain |-> None]

\* mutant: the name checks are dropped from the guard
build_request_row_nonames(row) ==
  LET first_name == ValueOrNone(row["First Name"])
      last_name == ValueOrNone(row["Last Name"])
      linkedin_url == ValueOrNone(row["LinkedIn URL"])
      organization_name == ValueOrNone(row["Company Name"])
      domain == extract_domain(row["Company Website"])
  IN  IF Falsy(domain) /\ Falsy(linkedin_url) THEN NoRequest
      ELSE [none |-> FALSE,
            first_name |-> StripOrNone(first_name),
            last_name |-> StripOrNone(last_name),
            linkedin_url |-> StripOrNone(linkedin_url),
            organization_name |-> StripOrNone(organization_name),
            domain |-> domain]

build_request_row(row) ==
  LET first_name == ValueOrNone(row["First Name"])
      last_name == ValueOrNone(row["Last Name"])
      linkedin_url == ValueOrNone(row["LinkedIn URL"])
      organization_name == ValueOrNone(row["Company Name"])
      domain == extract_domain(row["Company Website"])
  IN  IF Falsy(first_name) \/ Falsy(last_name) \/ (Falsy(domain) /\ Falsy(linkedin_url))
      THEN NoRequest
      ELSE [none |-> FALSE,
            first_name |-> StripOrNone(first_name),
            last_name |-> StripOrNone(last_name),
            linkedin_url |-> StripOrNone(linkedin_url),
            organization_name |-> StripOrNone(organization_name),
            domain |-> domain]

----------------------------------------------------------------------------
(* The Enrichment API's answer to one POST and fetch_bulk_emails *)

QuotaMessage == "Insufficient Apollo credits. Please upgrade your plan."

\* one element of the "matches" array: null, or an object with or without "email"
NullMatch == [null |-> TRUE, has_email |-> FALSE, email |-> "None"]
NoKeyMatch == [null |-> FALSE, has_email |-> FALSE, email |-> "None"]
EmailMatch(e) == [null |-> FALSE, has_email |-> TRUE, email |-> e]

\* the address the API matched for the i-th submitted record
EmailOf(i) == "e" \o ToString(i)

\* requests.post raised (no response)
ConnectionFault ==
  [fault |-> TRUE, status_code |-> 0, credits |-> FALSE, json |-> "invalid", matches |-> <<>>]
\* a response: status, whether the body text contains "insufficient credits"
\* (any case), and what response.json() gives: "invalid" (raises), an object
\* without "matches" ("nomatches") or with it ("matches")
Response(status, credits, json, matches) ==
  [fault |-> FALSE, status_code |-> status, credits |-> credits, json |-> json,
   matches |-> matches]

\* dict.get("email", "No email found")
MatchEmail(match) == IF match.has_email THEN match.email ELSE "No email found"

\* response.raise_for_status(): raises HTTPError for a 4xx or 5xx status
raise_for_status(response) == response.status_code >= 400 /\ response.status_code < 600

Return(emails) == [raised |-> FALSE, message |-> "", emails |-> emails]
Raise(message) == [raised |-> TRUE, message |-> message, emails |-> <<>>]

Repeat(marker, n) == [i \in 1..n |-> marker]

\* mutant: the exhausted-credits answer is treated as any other API error
fetch_bulk_emails_noquota(batch, response) ==
  IF response.fault THEN Raise("ConnectionError")
  ELSE IF response.status_code = 422 THEN Return(Repeat("Validation Error", Len(batch)))
  ELSE IF response.status_code # 200 THEN Return(Repeat("API Error", Len(batch)))
  ELSE IF raise_for_status(response) THEN Return(Repeat("HTTP Error", Len(batch)))
  ELSE IF response.json = "invalid" THEN Raise("JSONDecodeError")
  ELSE IF response.json = "matches"
       THEN IF \E i \in 1..Len(response.matches) : response.matches[i].null
            THEN Raise("AttributeError")
            ELSE Return([i \in 1..Len(response.matches) |-> MatchEmail(response.matches[i])])
  ELSE Return(Repeat("No email found", Len(batch)))

\* mutant: every exception of the call is absorbed as the "HTTP Error" marker
fetch_bulk_emails_absorb(batch, response) ==
  IF response.fault THEN Return(Repeat("HTTP Error", Len(batch)))
  ELSE IF response.status_code = 422 THEN Return(Repeat("Validation Error", Len(batch)))
  ELSE IF response.status_code # 200
       THEN IF response.credits THEN Raise(QuotaMessage)
            ELSE Return(Repeat("API Error", Len(batch)))
  ELSE IF raise_for_status(response) THEN Return(Repeat("HTTP Error", Len(batch)))
  ELSE IF response.json = "invalid" THEN Return(Repeat("HTTP Error", Len(batch)))
  ELSE IF response.json = "matches"
       THEN IF \E i \in 1..Len(response.matches) : response.matches[i].null
            THEN Return(Repeat("HTTP Error", Len(batch)))
            ELSE Return([i \in 1..Len(response.matches) |-> MatchEmail(response.matches[i])])
  ELSE Return(Repeat("No email found", Len(batch)))

\* mutant: every answer other than 200 is raised (raise_for_status first)
fetch_bulk_emails_raising(batch, response) ==
  IF response.fault THEN Raise("ConnectionError")
  ELSE IF response.status_code # 200
       THEN IF response.credits THEN Raise(QuotaMessage) ELSE Raise("HTTPError")
  ELSE IF response.json = "invalid" THEN Raise("JSONDecodeError")
  ELSE IF response.json = "matches"
       THEN IF \E i \in 1..Len(response.matches) : response.matches[i].null
            THEN Raise("AttributeError")
            ELSE Return([i \in 1..Len(response.matches) |-> MatchEmail(response.matches[i])])
  ELSE Return(Repeat("No email found", Len(batch)))

\* the result of fetch_bulk_emails(batch, api_key) when the API answers `response`:
\* the list it returns or the exception it lets escape
fetch_bulk_emails(batch, response) ==
  IF response.fault THEN Raise("ConnectionError")
  ELSE IF response.status_code = 422 THEN Return(Repeat("Validation Error", Len(batch)))
  ELSE IF response.status_code # 200
       THEN IF response.credits THEN Raise(QuotaMessage)
            ELSE Return(Repeat("API Error", Len(batch)))
  ELSE IF raise_for_status(response) THEN Return(Repeat("HTTP Error", Len(batch)))
  ELSE IF response.json = "invalid" THEN Raise("JSONDecodeError")
  ELSE IF response.json = "matches"
       THEN IF \E i \in 1..Len(response.matches) : response.matches[i].null
            THEN Raise("AttributeError")
            ELSE Return([i \in 1..Len(response.matches) |-> MatchEmail(response.matches[i])])
  ELSE Return(Repeat("No email found", Len(batch)))

----------------------------------------------------------------------------
(* Uploaded files *)

Name == <<"p">>
PaddedName == <<" ", "p", " ">>
Blank == <<" ", " ">>
FullUrl == <<"h", ":", "/", "/", "w", "w", "w", ".", "f", "/", "p">>
BareUrl == <<"f">>
SlashUrl == <<"/">>

H_std == REQUIRED_HEADERS
\* an input that already has an Email column, and another column order
H_extra == <<"Email", "Last Name", "First Name", "LinkedIn URL", "Company Name", "Company Website">>
\* an input without the Company Name column
H_missing == <<"First Name", "Last Name", "LinkedIn URL", "Company Website">>
\* an input without the column c
H_without(c) == SelectSeq(H_std, LAMBDA h : h # c)

Cells(first, last, linkedin, company, website) ==
  [c \in Range(H_extra) |->
     CASE c = "First Name" -> first
       [] c = "Last Name" -> last
       [] c = "LinkedIn URL" -> linkedin
       [] c = "Company Name" -> company
       [] c = "Company Website" -> website
       [] OTHER -> Str(<<"f">>)]

\* the kinds of row the tables are made of
KindRows ==
  << Cells(Str(Name), Str(Name), NaN, Str(Name), Str(FullUrl)),
     Cells(NaN, Str(Name), Str(Name), Str(Name), Str(FullUrl)),
     Cells(Str(PaddedName), Str(Name), Str(PaddedName), NaN, NaN),
     Cells(Str(Name), Str(Name), NaN, Str(Name), NaN),
     Cells(Str(Blank), Str(Name), NaN, NaN, Str(BareUrl)),
     Cells(Str(Name), Str(Name), Str(Blank), NaN, NaN),
     Cells(Str(Name), Str(Name), NaN, NaN, Str(SlashUrl)),
     Cells(Str(Name), Str(Blank), Str(Name), NaN, Str(Blank)) >>

Patterns == {"eligible", "ineligible", "mixed", "gap", "last"}

\* the i-th row of the n-row table of pattern p
PatternRow(p, i, n) ==
  CASE p = "eligible" -> KindRows[1]
    [] p = "ineligible" -> KindRows[2]
    [] p = "mixed" -> KindRows[((i - 1) % Len(KindRows)) + 1]
    [] p = "gap" -> IF i > BATCH_SIZE /\ i <= 2 * BATCH_SIZE THEN KindRows[2] ELSE KindRows[1]
    [] OTHER -> IF i = n THEN KindRows[3] ELSE KindRows[4]

\* a row as read under `header`: its cells for the columns of the header
Table(header, n, p) ==
  [i \in 1..n |-> [c \in Range(header) |-> PatternRow(p, i, n)[c]]]

\* the request of one upload: the form fields and the file's content
Upload(api_key, is_csv, parseable, header, rows) ==
  [present |-> TRUE, api_key |-> api_key, is_csv |-> is_csv, parseable |-> parseable,
   header |-> header, rows |-> rows]

NoUpload ==
  [present |-> FALSE, api_key |-> "", is_csv |-> FALSE, parseable |-> FALSE,
   header |-> <<>>, rows |-> <<>>]

CsvFile(header, n, p) == Upload("key", TRUE, TRUE, header, Table(header, n, p))
\* a file pd.read_csv cannot parse
Unparseable == Upload("key", TRUE, FALSE, <<>>, <<>>)

\* the uploads of the one-job specification
Files ==
  {CsvFile(H_std, n, p) : n \in 0..MaxRows, p \in Patterns}
    \cup {CsvFile(H_extra, n, "mixed") : n \in {0, 3, MaxRows}}
    \cup {CsvFile(H_without(c), 2, "eligible") : c \in Range(REQUIRED_HEADERS)}
    \cup {CsvFile(H_missing, 2, "eligible"), Unparseable,
          Upload("", TRUE, TRUE, H_std, Table(H_std, 1, "eligible")),
          Upload("key", FALSE, TRUE, H_std, Table(H_std, 1, "eligible"))}

\* the uploads of the specification of concurrent jobs: the first job calls
\* the API, the second ends without a call, any other fails at read_csv
FilesOfJob(j) ==
  IF j = 1 THEN {CsvFile(H_std, 1, "eligible"), CsvFile(H_missing, 2, "eligible")}
  ELSE IF j = 2 THEN {CsvFile(H_std, 0, "eligible"), Unparseable}
  ELSE {Unparseable}

----------------------------------------------------------------------------
(* The answers the API may give to a batch of b records *)

MatchPatterns == {"emails", "nokey", "nullemail", "nullmatch"}

\* a matches array of m elements: addresses, except for the first element
\* under the patterns that make it an object without "email", an object with
\* "email": null, or null
Matches(m, p) ==
  [i \in 1..m |->
     IF i > 1 \/ p = "emails" THEN EmailMatch(EmailOf(i))
     ELSE IF p = "nokey" THEN NoKeyMatch
     ELSE IF p = "nullemail" THEN EmailMatch("None")
     ELSE NullMatch]

Responses(b) ==
  {ConnectionFault}
    \cup {Response(status, credits, "invalid", <<>>) :
            status \in {402, 422}, credits \in BOOLEAN}
    \cup {Response(200, FALSE, json, <<>>) : json \in {"invalid", "nomatches"}}
    \cup {Response(200, FALSE, "matches", Matches(m, p)) :
            m \in {k \in (b - 1)..(b + 1) : k >= 0}, p \in MatchPatterns}

----------------------------------------------------------------------------
(* State *)

VARIABLES
  requests,          \* the upload request of each job id (fixed)
  pc,                \* where each upload / background thread stands
  handler,           \* "try" or "except": the part of process_csv running
  session,           \* session['process_id'] of the browser (0: not set)
  processing_status, \* the global dict: process id -> status record
  df,                \* the DataFrame of each job
  start,             \* loop variable of the batch loop (0-based)
  rows_processed,
  requests_batch,
  batch_indexes,
  emails,
  error_message,     \* str(e) of the exception process_csv caught
  call,              \* arguments of the running add_history_entry call
  history,           \* the list load_history returned to that call
  history_file,      \* content of history.json
  outputs,           \* the files of the output folder: name -> content
  api_calls,         \* the POSTs each job has sent
  elapsed,           \* seconds each job has slept
  reply              \* the last JSON answer of check_download

vars ==
  << requests, pc, handler, session, processing_status, df, start, rows_processed,
     requests_batch, batch_indexes, emails, error_message, call, history,
     history_file, outputs, api_calls, elapsed, reply >>

\* mutant: every upload gets the same process id
ProcessId_reused(j) == 1

\* str(uuid.uuid4()) of the upload of job j
ProcessId(j) == j

\* os.path.basename(output_path) of job j
OutputName(j) == "output_" \o ToString(j) \o ".csv"
OriginalName(j) == "file_" \o ToString(j) \o ".csv"

NoCall == [output_filename |-> "", status |-> "", rows_processed |-> 0]

\* an entry that history.json holds from an earlier run
OldEntry ==
  [id |-> 0, original_filename |-> "old.csv", output_filename |-> "output_old.csv",
   status |-> "completed", rows_processed |-> 1]

----------------------------------------------------------------------------
(* The status records process_csv stores *)

\* the record stored when the thread starts
InitialStatus ==
  [download_ready |-> FALSE, download_file |-> "None", download_filename |-> "None",
   error |-> FALSE, error_message |-> "None"]

\* the record stored after the output is saved
CompletedStatus(j) ==
  [download_ready |-> TRUE, download_file |-> OutputName(j),
   download_filename |-> "output_" \o OriginalName(j),
   error |-> FALSE, error_message |-> "None"]

\* mutant: the except handler stores the error in a record that is ready
FailedStatus_ready(message) ==
  [download_ready |-> TRUE, download_file |-> "None", download_filename |-> "None",
   error |-> TRUE, error_message |-> message]

\* the record stored by the except handler
FailedStatus(message) ==
  [download_ready |-> FALSE, download_file |-> "None", download_filename |-> "None",
   error |-> TRUE, error_message |-> message]

\* processing_status[pid] = record
SetStatus(pid, record) ==
  processing_status' =
    [k \in DOMAIN processing_status \cup {pid} |->
       IF k = pid THEN record ELSE processing_status[k]]

----------------------------------------------------------------------------
(* upload_file and check_download *)

NoReply ==
  [sent |-> FALSE, ready |-> FALSE, error |-> FALSE, error_message |-> "absent",
   file |-> "absent", filename |-> "absent"]
\* jsonify({'ready': False})
NotReadyReply ==
  [sent |-> TRUE, ready |-> FALSE, error |-> FALSE, error_message |-> "absent",
   file |-> "absent", filename |-> "absent"]
\* jsonify({'ready': False, 'error': True, 'error_message': ...})
ErrorReply(status) ==
  [sent |-> TRUE, ready |-> FALSE, error |-> TRUE, error_message |-> status.error_message,
   file |-> "absent", filename |-> "absent"]
\* jsonify({'ready': True, 'file': ..., 'filename': ...})
ReadyReply(status) ==
  [sent |-> TRUE, ready |-> TRUE, error |-> FALSE, error_message |-> "absent",
   file |-> status.download_file, filename |-> status.download_filename]

\* the answer of check_download for the session's process id
CheckDownloadReply(process_id) ==
  IF process_id # 0 /\ process_id \in DOMAIN processing_status
  THEN LET status == processing_status[process_id]
       IN  IF status.error THEN ErrorReply(status)
           ELSE IF status.download_ready THEN ReadyReply(status)
           ELSE NotReadyReply
  ELSE NotReadyReply

\* POST /upload of request j: rejected without an API key or a .csv file name,
\* else the process id is put in the session and the thread is started
upload_file(j) ==
  /\ pc[j] = "idle"
  /\ requests[j].present
  /\ IF requests[j].api_key = "" \/ ~requests[j].is_csv
     THEN /\ pc' = [pc EXCEPT ![j] = "rejected"]
          /\ UNCHANGED session
     ELSE /\ pc' = [pc EXCEPT ![j] = "start"]
          /\ session' = ProcessId(j)
  /\ UNCHANGED << requests, handler, processing_status, df, start, rows_processed,
                  requests_batch, batch_indexes, emails, error_message, call, history,
                  history_file, outputs, api_calls, elapsed, reply >>

\* GET /check_download
check_download ==
  /\ reply' = CheckDownloadReply(session)
  /\ UNCHANGED << requests, pc, handler, session, processing_status, df, start,
                  rows_processed, requests_batch, batch_indexes, emails, error_message,
                  call, history, history_file, outputs, api_calls, elapsed >>

----------------------------------------------------------------------------
(* process_csv, one action per step *)

\* mutant: the except handler sets the status without the history entry
Throw_nohistory(j, message) ==
  /\ handler' = [handler EXCEPT ![j] = "except"]
  /\ error_message' = [error_message EXCEPT ![j] = message]
  /\ call' = [call EXCEPT ![j] =
                [output_filename |-> "", status |-> "failed", rows_processed |-> 0]]
  /\ pc' = [pc EXCEPT ![j] = "set_status"]

\* an exception raised at a step of job j: the try body hands it to the except
\* handler, which starts add_history_entry(original_filename, "", "failed", 0);
\* raised in the handler itself it ends the thread
Throw(j, message) ==
  IF handler[j] = "try"
  THEN /\ handler' = [handler EXCEPT ![j] = "except"]
       /\ error_message' = [error_message EXCEPT ![j] = message]
       /\ call' = [call EXCEPT ![j] =
                     [output_filename |-> "", status |-> "failed", rows_processed |-> 0]]
       /\ pc' = [pc EXCEPT ![j] = "load_history"]
  ELSE /\ pc' = [pc EXCEPT ![j] = "crashed"]
       /\ UNCHANGED << handler, error_message, call >>

\* lines 147-156: the status of the process id is initialised
Register(j) ==
  /\ pc[j] = "start"
  /\ SetStatus(ProcessId(j), InitialStatus)
  /\ pc' = [pc EXCEPT ![j] = "read_csv"]
  /\ UNCHANGED << requests, handler, session, df, start, rows_processed, requests_batch,
                  batch_indexes, emails, error_message, call, history, history_file,
                  outputs, api_calls, elapsed, reply >>

\* a DataFrame: the column labels in order and the rows, each a function
\* of the column labels
NoFrame == [columns |-> <<>>, rows |-> <<>>]

\* df[REQUIRED_HEADERS].copy()
SelectColumns(frame, labels) ==
  [columns |-> labels,
   rows |-> [i \in 1..Len(frame.rows) |-> [c \in Range(labels) |-> frame.rows[i][c]]]]

\* df[label] = value: a new last column, or an existing column overwritten
AddColumn(frame, label, value) ==
  [columns |-> IF label \in Range(frame.columns) THEN frame.columns
               ELSE Append(frame.columns, label),
   rows |-> [i \in 1..Len(frame.rows) |->
               [c \in Range(frame.columns) \cup {label} |->
                  IF c = label THEN value ELSE frame.rows[i][c]]]]

\* lines 158-171: read the file, keep the required columns, add Email
LoadCsv(j) ==
  /\ pc[j] = "read_csv"
  /\ IF ~requests[j].parseable
     THEN /\ Throw(j, "ParserError")
          /\ UNCHANGED << df, start, rows_processed >>
     ELSE IF ~(Range(REQUIRED_HEADERS) \subseteq Range(requests[j].header))
     THEN /\ Throw(j, "KeyError")
          /\ UNCHANGED << df, start, rows_processed >>
     ELSE /\ df' = [df EXCEPT ![j] =
                    AddColumn(SelectColumns([columns |-> requests[j].header,
                                             rows |-> requests[j].rows],
                                            REQUIRED_HEADERS),
                              "Email", "")]
          /\ start' = [start EXCEPT ![j] = 0]
          /\ rows_processed' = [rows_processed EXCEPT ![j] = 0]
          /\ pc' = [pc EXCEPT ![j] = "loop"]
          /\ UNCHANGED << handler, error_message, call >>
  /\ UNCHANGED << requests, session, processing_status, requests_batch, batch_indexes,
                  emails, history, history_file, outputs, api_calls, elapsed, reply >>

\* mutant: the slice starts one row early (iloc[start-1:start+BATCH_SIZE])
Window_inclusive(table, s) == {i \in 1..Len(table) : i >= s /\ i <= s + BATCH_SIZE}

\* df.iloc[start:start+BATCH_SIZE]: the (1-based) positions of the window
Window(table, s) == {i \in 1..Len(table) : i > s /\ i <= s + BATCH_SIZE}

\* the positions of a set, in increasing order
RECURSIVE Sorted(_)
Sorted(S) ==
  IF S = {} THEN <<>>
  ELSE LET m == CHOOSE x \in S : \A y \in S : x <= y
       IN  <<m>> \o Sorted(S \ {m})

\* lines 183-187: the index labels of the rows of the window that give a request
BatchIndexes(table, s) ==
  Sorted({i \in Window(table, s) : ~build_request_row(table[i]).none})

\* mutant: a window without requests is sent to the API as well
BuildBatch_sendempty(j) ==
  /\ pc[j] = "loop"
  /\ IF start[j] >= Len(df[j].rows)
     THEN /\ pc' = [pc EXCEPT ![j] = "to_csv"]
          /\ UNCHANGED << requests_batch, batch_indexes >>
     ELSE LET idx == BatchIndexes(df[j].rows, start[j])
          IN  /\ batch_indexes' = [batch_indexes EXCEPT ![j] = idx]
              /\ requests_batch' = [requests_batch EXCEPT ![j] =
                                      [k \in 1..Len(idx) |->
                                         build_request_row(df[j].rows[idx[k]])]]
              /\ pc' = [pc EXCEPT ![j] = "fetch"]
  /\ UNCHANGED << requests, handler, session, processing_status, df, start,
                  rows_processed, emails, error_message, call, history, history_file,
                  outputs, api_calls, elapsed, reply >>

\* lines 175-192: the next window, its requests and their index labels
BuildBatch(j) ==
  /\ pc[j] = "loop"
  /\ IF start[j] >= Len(df[j].rows)
     THEN /\ pc' = [pc EXCEPT ![j] = "to_csv"]
          /\ UNCHANGED << requests_batch, batch_indexes >>
     ELSE LET idx == BatchIndexes(df[j].rows, start[j])
          IN  /\ batch_indexes' = [batch_indexes EXCEPT ![j] = idx]
              /\ requests_batch' = [requests_batch EXCEPT ![j] =
                                      [k \in 1..Len(idx) |->
                                         build_request_row(df[j].rows[idx[k]])]]
              /\ pc' = [pc EXCEPT ![j] = IF idx = <<>> THEN "sleep" ELSE "fetch"]
  /\ UNCHANGED << requests, handler, session, processing_status, df, start,
                  rows_processed, emails, error_message, call, history, history_file,
                  outputs, api_calls, elapsed, reply >>

\* line 195: one POST; the API answers with any response
Fetch(j) ==
  /\ pc[j] = "fetch"
  /\ \E response \in Responses(Len(requests_batch[j])) :
       LET result == fetch_bulk_emails(requests_batch[j], response)
       IN  /\ api_calls' = [api_calls EXCEPT ![j] =
                Append(@, [at |-> elapsed[j], indexes |-> batch_indexes[j],
                           response |-> response])]
           /\ IF result.raised
              THEN /\ Throw(j, result.message)
                   /\ UNCHANGED emails
              ELSE /\ emails' = [emails EXCEPT ![j] = result.emails]
                   /\ pc' = [pc EXCEPT ![j] = "merge"]
                   /\ UNCHANGED << handler, error_message, call >>
  /\ UNCHANGED << requests, session, processing_status, df, start, rows_processed,
                  requests_batch, batch_indexes, history, history_file, outputs,
                  elapsed, reply >>

\* mutant: the values are stored by position in the batch (iloc for loc)
SetEmails_bypos(table, indexes, values) ==
  [i \in 1..Len(table) |->
     IF i <= Len(indexes) THEN [table[i] EXCEPT !["Email"] = values[i]] ELSE table[i]]

\* mutant: the first value is broadcast to every row of the batch
SetEmails_first(table, indexes, values) ==
  [i \in 1..Len(table) |->
     IF \E k \in 1..Len(indexes) : indexes[k] = i
     THEN [table[i] EXCEPT !["Email"] = values[1]]
     ELSE table[i]]

\* df.loc[indexes, "Email"] = values, for lists of the same length
SetEmails(table, indexes, values) ==
  [i \in 1..Len(table) |->
     IF \E k \in 1..Len(indexes) : indexes[k] = i
     THEN [table[i] EXCEPT !["Email"] =
             values[CHOOSE k \in 1..Len(indexes) : indexes[k] = i]]
     ELSE table[i]]

\* mutant: the count advances by the size of the window
AddProcessed_window(count, batch) == count + BATCH_SIZE

\* rows_processed += len(requests_batch)
AddProcessed(count, batch) == count + Len(batch)

\* lines 196-197: pandas raises ValueError ("Must have equal len keys and value
\* when setting with an iterable") when the lists differ in length
Merge(j) ==
  /\ pc[j] = "merge"
  /\ IF Len(emails[j]) # Len(batch_indexes[j])
     THEN /\ Throw(j, "ValueError")
          /\ UNCHANGED << df, rows_processed >>
     ELSE /\ df' = [df EXCEPT ![j].rows = SetEmails(@, batch_indexes[j], emails[j])]
          /\ rows_processed' = [rows_processed EXCEPT ![j] =
                                  AddProcessed(@, requests_batch[j])]
          /\ pc' = [pc EXCEPT ![j] = "sleep"]
          /\ UNCHANGED << handler, error_message, call >>
  /\ UNCHANGED << requests, session, processing_status, start, requests_batch,
                  batch_indexes, emails, history, history_file, outputs, api_calls,
                  elapsed, reply >>

\* lines 191 / 200: time.sleep(DELAY_SECONDS), then the next value of the range
Sleep(j) ==
  /\ pc[j] = "sleep"
  /\ elapsed' = [elapsed EXCEPT ![j] = @ + DELAY_SECONDS]
  /\ start' = [start EXCEPT ![j] = @ + BATCH_SIZE]
  /\ pc' = [pc EXCEPT ![j] = "loop"]
  /\ UNCHANGED << requests, handler, session, processing_status, df, rows_processed,
                  requests_batch, batch_indexes, emails, error_message, call, history,
                  history_file, outputs, api_calls, reply >>

\* lines 203-207: df.to_csv(output_file_path), then add_history_entry is called
WriteOutput(j) ==
  /\ pc[j] = "to_csv"
  /\ outputs' =
       [n \in DOMAIN outputs \cup {OutputName(j)} |->
          IF n = OutputName(j)
          THEN [header |-> df[j].columns, rows |-> df[j].rows]
          ELSE outputs[n]]
  /\ call' = [call EXCEPT ![j] =
                [output_filename |-> OutputName(j), status |-> "completed",
                 rows_processed |-> rows_processed[j]]]
  /\ pc' = [pc EXCEPT ![j] = "load_history"]
  /\ UNCHANGED << requests, handler, session, processing_status, df, start,
                  rows_processed, requests_batch, batch_indexes, emails, error_message,
                  history, history_file, api_calls, elapsed, reply >>

----------------------------------------------------------------------------
(* add_history_entry: load_history, then save_history, without a lock *)

\* mutant: the entry always says completed
Entry_completed(j, args) ==
  [id |-> j, original_filename |-> OriginalName(j),
   output_filename |-> args.output_filename, status |-> "completed",
   rows_processed |-> args.rows_processed]

\* the entry add_history_entry appends for job j
Entry(j, args) ==
  [id |-> j, original_filename |-> OriginalName(j),
   output_filename |-> args.output_filename, status |-> args.status,
   rows_processed |-> args.rows_processed]

ValidFile(entries) == [ok |-> TRUE, entries |-> entries]
\* history.json just opened with 'w', or holding bytes json.load rejects
InvalidFile == [ok |-> FALSE, entries |-> <<>>]

\* load_history: [] when the file is missing or json.load raises
load_history == IF history_file.ok THEN history_file.entries ELSE <<>>

\* line 59
LoadHistory(j) ==
  /\ pc[j] = "load_history"
  /\ history' = [history EXCEPT ![j] = load_history]
  /\ pc' = [pc EXCEPT ![j] = "open_history"]
  /\ UNCHANGED << requests, handler, session, processing_status, df, start,
                  rows_processed, requests_batch, batch_indexes, emails, error_message,
                  call, history_file, outputs, api_calls, elapsed, reply >>

\* lines 60-68 and save_history's open(..., 'w'), which empties the file
OpenHistory(j) ==
  /\ pc[j] = "open_history"
  /\ history' = [history EXCEPT ![j] = Append(@, Entry(j, call[j]))]
  /\ history_file' = InvalidFile
  /\ pc' = [pc EXCEPT ![j] = "dump_history"]
  /\ UNCHANGED << requests, handler, session, processing_status, df, start,
                  rows_processed, requests_batch, batch_indexes, emails, error_message,
                  call, outputs, api_calls, elapsed, reply >>

\* json.dump and close. When another thread has written the file since this
\* one opened it, the two writes overlap: the file ends with this thread's
\* list or with bytes of both
DumpHistory(j) ==
  /\ pc[j] = "dump_history"
  /\ \/ history_file' = ValidFile(history[j])
     \/ /\ history_file.ok
        /\ history_file' = InvalidFile
  /\ pc' = [pc EXCEPT ![j] = "set_status"]
  /\ UNCHANGED << requests, handler, session, processing_status, df, start,
                  rows_processed, requests_batch, batch_indexes, emails, error_message,
                  call, history, outputs, api_calls, elapsed, reply >>

\* mutant: the status is stored before add_history_entry is called
StoreStatus_first(j) ==
  /\ pc[j] = "load_history"
  /\ SetStatus(ProcessId(j),
               IF handler[j] = "try" THEN CompletedStatus(j)
               ELSE FailedStatus(error_message[j]))
  /\ UNCHANGED << requests, pc, handler, session, df, start, rows_processed,
                  requests_batch, batch_indexes, emails, error_message, call, history,
                  history_file, outputs, api_calls, elapsed, reply >>

\* lines 210-216 in the try body, lines 224-230 in the except handler
StoreStatus(j) ==
  /\ pc[j] = "set_status"
  /\ SetStatus(ProcessId(j),
               IF handler[j] = "try" THEN CompletedStatus(j)
               ELSE FailedStatus(error_message[j]))
  /\ pc' = [pc EXCEPT ![j] = "done"]
  /\ UNCHANGED << requests, handler, session, df, start, rows_processed, requests_batch,
                  batch_indexes, emails, error_message, call, history, history_file,
                  outputs, api_calls, elapsed, reply >>

----------------------------------------------------------------------------
(* File operations that raise OSError *)

\* df.to_csv cannot create the output file
ToCsvFails(j) ==
  /\ pc[j] = "to_csv"
  /\ Throw(j, "OSError")
  /\ UNCHANGED << requests, session, processing_status, df, start, rows_processed,
                  requests_batch, batch_indexes, emails, history, history_file, outputs,
                  api_calls, elapsed, reply >>

\* save_history cannot open history.json for writing
OpenHistoryFails(j) ==
  /\ pc[j] = "open_history"
  /\ Throw(j, "OSError")
  /\ UNCHANGED << requests, session, processing_status, df, start, rows_processed,
                  requests_batch, batch_indexes, emails, history, history_file, outputs,
                  api_calls, elapsed, reply >>

----------------------------------------------------------------------------
(* Specifications *)

InitWith(rq) ==
  /\ requests = rq
  /\ pc = [j \in Jobs |-> "idle"]
  /\ handler = [j \in Jobs |-> "try"]
  /\ session = 0
  /\ processing_status = [k \in {} |-> InitialStatus]
  /\ df = [j \in Jobs |-> NoFrame]
  /\ start = [j \in Jobs |-> 0]
  /\ rows_processed = [j \in Jobs |-> 0]
  /\ requests_batch = [j \in Jobs |-> <<>>]
  /\ batch_indexes = [j \in Jobs |-> <<>>]
  /\ emails = [j \in Jobs |-> <<>>]
  /\ error_message = [j \in Jobs |-> "None"]
  /\ call = [j \in Jobs |-> NoCall]
  /\ history = [j \in Jobs |-> <<>>]
  /\ history_file \in {ValidFile(<<>>), ValidFile(<<OldEntry>>)}
  /\ outputs = [n \in {} |-> [header |-> <<>>, rows |-> <<>>]]
  /\ api_calls = [j \in Jobs |-> <<>>]
  /\ elapsed = [j \in Jobs |-> 0]
  /\ reply = NoReply

\* one upload, of any file of Files
Init == \E f \in Files : InitWith([j \in Jobs |-> IF j = 1 THEN f ELSE NoUpload])

\* one upload per job id
InitJobs ==
  \E rq \in [Jobs -> UNION {FilesOfJob(j) : j \in Jobs}] :
    /\ \A j \in Jobs : rq[j] \in FilesOfJob(j)
    /\ InitWith(rq)

Next ==
  \/ \E j \in Jobs : upload_file(j)
  \/ check_download
  \/ \E j \in Jobs : Register(j)
  \/ \E j \in Jobs : LoadCsv(j)
  \/ \E j \in Jobs : BuildBatch(j)
  \/ \E j \in Jobs : Fetch(j)
  \/ \E j \in Jobs : Merge(j)
  \/ \E j \in Jobs : Sleep(j)
  \/ \E j \in Jobs : WriteOutput(j)
  \/ \E j \in Jobs : LoadHistory(j)
  \/ \E j \in Jobs : OpenHistory(j)
  \/ \E j \in Jobs : DumpHistory(j)
  \/ \E j \in Jobs : StoreStatus(j)

NextIO ==
  \/ Next
  \/ \E j \in Jobs : ToCsvFails(j)
  \/ \E j \in Jobs : OpenHistoryFails(j)

\* one job, the file system never fails
Spec == Init /\ [][Next]_vars
\* concurrent jobs, the file system never fails
SpecJobs == InitJobs /\ [][Next]_vars
\* one job, to_csv and the opening of history.json may raise
SpecIO == Init /\ [][NextIO]_vars

----------------------------------------------------------------------------
(* Vocabulary of the properties *)

Registered(j) == ProcessId(j) \in DOMAIN processing_status
StatusOf(j) == processing_status[ProcessId(j)]
\* the job tracker shows job j as completed / as failed
Completed(j) == Registered(j) /\ StatusOf(j).download_ready
Failed(j) == Registered(j) /\ StatusOf(j).error
\* the thread of job j has ended
Ended(j) == pc[j] \in {"done", "crashed"}
\* the entries history.json holds
Stored == Range(load_history)
\* the answer the API gave to the latest POST of job j
LastResponse(j) == api_calls[j][Len(api_calls[j])].response
\* the entry of a failed run of job j
FailedEntry(j) ==
  Entry(j, [output_filename |-> "", status |-> "failed", rows_processed |-> 0])
OutputWritten(j) == OutputName(j) \in DOMAIN outputs

----------------------------------------------------------------------------
(* C1 *)

\* C1: no entry is lost under concurrent appends: once every job's thread has
\* returned, history.json holds, for each job, the entry that job appended
\* and every entry the file held when the job loaded it.
C1_NoEntryLost ==
  (\A j \in Jobs : pc[j] = "done") =>
    \A j \in Jobs : \A i \in 1..Len(history[j]) : history[j][i] \in Stored

----------------------------------------------------------------------------
(* C2 *)

\* a non-success response whose body indicates insufficient credits
CreditsAnswer(r) == ~r.fault /\ r.status_code # 200 /\ r.credits
\* the same, HTTP 422 excepted
QuotaAnswer(r) == CreditsAnswer(r) /\ r.status_code # 422

\* what follows the batch that was answered by the quota condition: the job
\* is in its except handler with a failed, zero-row history entry to append,
\* and it ends failed with that entry stored and no output
AbortedByQuota(j) ==
  /\ handler[j] = "except"
  /\ error_message[j] = QuotaMessage
  /\ call[j] = [output_filename |-> "", status |-> "failed", rows_processed |-> 0]
  /\ pc[j] \in {"load_history", "open_history", "dump_history", "set_status", "done"}
  /\ pc[j] = "done" =>
       /\ Failed(j)
       /\ StatusOf(j).error_message = QuotaMessage
       /\ FailedEntry(j) \in Stored
       /\ ~OutputWritten(j)

\* C2 (as amended): when batch k is answered by a non-success response other
\* than 422 whose body indicates insufficient credits, batch k is the last
\* API call of the job, and the job ends failed with a failed history entry
\* of rows_processed = 0, whatever was submitted before k.
C2_QuotaAborts ==
  \A j \in Jobs : \A k \in 1..Len(api_calls[j]) :
    QuotaAnswer(api_calls[j][k].response) =>
      k = Len(api_calls[j]) /\ AbortedByQuota(j)

\* C2 (as stated): the same for every non-success response whose body
\* indicates insufficient credits.
C2_AnyCreditsAnswerAborts ==
  \A j \in Jobs : \A k \in 1..Len(api_calls[j]) :
    CreditsAnswer(api_calls[j][k].response) =>
      k = Len(api_calls[j]) /\ AbortedByQuota(j)

\* a job that submitted rows in an earlier batch, met the quota condition on
\* a later one and has ended
C2_Witness ==
  /\ pc[1] = "done"
  /\ Len(api_calls[1]) >= 2
  /\ QuotaAnswer(LastResponse(1))
  /\ rows_processed[1] > 0
  /\ start[1] + BATCH_SIZE < Len(df[1].rows)

----------------------------------------------------------------------------
(* C3 *)

\* a transport-level failure: requests.post raised, or a 200 response whose
\* body is not JSON
TransportFailure(r) == r.fault \/ (r.status_code = 200 /\ r.json = "invalid")

----------------------------------------------------------------------------
(* C4 *)

\* C4: for every answer that does not abort the job, fetch_bulk_emails
\* returns as many results as the batch has records, in order: for a 200
\* answer with a matches array, one result per record whatever the length of
\* the array, "No email found" for a match without an email.
C4_OneResultPerRecord ==
  \A j \in Jobs :
    pc[j] = "merge" =>
      /\ Len(emails[j]) = Len(requests_batch[j])
      /\ LastResponse(j).json = "matches" /\ LastResponse(j).status_code = 200 =>
           \A i \in 1..Len(requests_batch[j]) :
             emails[j][i] = IF i <= Len(LastResponse(j).matches)
                               /\ LastResponse(j).matches[i].has_email
                               /\ LastResponse(j).matches[i].email # "None"
                            THEN LastResponse(j).matches[i].email
                            ELSE "No email found"

----------------------------------------------------------------------------
(* C5 *)

\* a row the Record Validator accepts
Eligible(row) == ~build_request_row(row).none

----------------------------------------------------------------------------
(* C6 *)

\* C6: the output is written only on full job success: no job that ends
\* failed has an output file (and its status was never download_ready).
C6_NoOutputOfFailedJob ==
  \A j \in Jobs : Failed(j) => ~OutputWritten(j)

----------------------------------------------------------------------------
(* C7 *)

\* a cell that is missing, or blank once trimmed
Absent(v) == v.t # "str" \/ strip(v.s, Whitespace) = <<>>

\* both names present and a domain or a LinkedIn URL present
HasRequiredFields(row) ==
  /\ ~Absent(row["First Name"])
  /\ ~Absent(row["Last Name"])
  /\ ~Falsy(extract_domain(row["Company Website"])) \/ ~Absent(row["LinkedIn URL"])

\* the number of POSTs of job j that carried row i
TimesSubmitted(j, i) ==
  Cardinality({k \in 1..Len(api_calls[j]) : i \in Range(api_calls[j][k].indexes)})

\* C7: a row is in an API request only if both names are present and the
\* derived domain or the LinkedIn URL is present; every such row of a job
\* that was not aborted is submitted exactly once.
C7_OnlyRowsWithRequiredFields ==
  \A j \in Jobs : \A i \in 1..Len(df[j].rows) :
    /\ TimesSubmitted(j, i) > 0 => HasRequiredFields(requests[j].rows[i])
    /\ (Completed(j) /\ HasRequiredFields(requests[j].rows[i])) => TimesSubmitted(j, i) = 1

----------------------------------------------------------------------------
(* C8 *)

\* a cell holding only whitespace
BlankCell(v) == v.t = "str" /\ strip(v.s, Whitespace) = <<>>

\* C8: build_request_row gives None for a row whose First Name or Last Name
\* is whitespace-only, or whose only contact field is a whitespace-only
\* LinkedIn URL; no record has an empty first_name, last_name or linkedin_url.
C8_BlankIsAbsent ==
  \A j \in Jobs :
    /\ \A i \in 1..Len(df[j].rows) :
         LET row == df[j].rows[i]
         IN  (\/ BlankCell(row["First Name"])
              \/ BlankCell(row["Last Name"])
              \/ BlankCell(row["LinkedIn URL"]) /\ Falsy(extract_domain(row["Company Website"])))
               => build_request_row(row).none
    /\ \A k \in 1..Len(requests_batch[j]) :
         /\ requests_batch[j][k].first_name # Str(<<>>)
         /\ requests_batch[j][k].last_name # Str(<<>>)
         /\ requests_batch[j][k].linkedin_url # Str(<<>>)

----------------------------------------------------------------------------
(* C9 *)

\* C9: the status of a job id goes from absent to the running record and
\* from there to completed or to failed; a terminal status is never changed
\* again by any step of any job.
C9_TerminalOnce ==
  [][\A j \in Jobs :
       /\ (Completed(j) \/ Failed(j)) =>
            /\ ProcessId(j) \in DOMAIN processing_status'
            /\ processing_status'[ProcessId(j)] = processing_status[ProcessId(j)]
       /\ (~Registered(j) /\ ProcessId(j) \in DOMAIN processing_status') =>
            processing_status'[ProcessId(j)] = InitialStatus
       /\ Registered(j) => ProcessId(j) \in DOMAIN processing_status'
    ]_vars

\* both jobs have ended, one completed and one failed
C9_Witness ==
  /\ \A j \in Jobs : pc[j] = "done"
  /\ \E j \in Jobs : Completed(j)
  /\ \E j \in Jobs : Failed(j)

----------------------------------------------------------------------------
(* C10 *)

\* C10: a status record holds an output reference only when the job is
\* completed and an error message only when it is failed, never both; and
\* check_download answers not ready, ready with the output, or error with
\* the message.
C10_StatusConsistent ==
  /\ \A j \in Jobs :
       Registered(j) =>
         LET s == StatusOf(j)
         IN  /\ ~(s.download_ready /\ s.error)
             /\ (s.download_ready \/ s.download_file # "None" \/ s.download_filename # "None") =>
                  /\ s.download_ready /\ s.download_file = OutputName(j)
                  /\ pc[j] = "done" /\ handler[j] = "try" /\ OutputWritten(j)
             /\ (s.error \/ s.error_message # "None") =>
                  /\ s.error /\ s.error_message = error_message[j]
                  /\ pc[j] = "done" /\ handler[j] = "except"
  /\ reply.sent =>
       \/ reply = NotReadyReply
       \/ /\ reply.ready /\ ~reply.error /\ reply.error_message = "absent"
          /\ \E j \in Jobs : Completed(j) /\ reply.file = OutputName(j)
       \/ /\ ~reply.ready /\ reply.error /\ reply.file = "absent"
          /\ \E j \in Jobs : Failed(j) /\ reply.error_message = error_message[j]

\* a completed and a failed job, and a poll answered with the output
C10_Witness ==
  /\ \E j \in Jobs : Completed(j)
  /\ \E j \in Jobs : Failed(j)
  /\ reply.ready

----------------------------------------------------------------------------
(* C11 *)

RECURSIVE SubmittedRows(_)
\* the number of rows carried by a sequence of POSTs
SubmittedRows(calls) ==
  IF calls = <<>> THEN 0 ELSE Len(Head(calls).indexes) + SubmittedRows(Tail(calls))

\* the entry of a completed run of job j that processed n rows
CompletedEntry(j, n) ==
  Entry(j, [output_filename |-> OutputName(j), status |-> "completed", rows_processed |-> n])

\* C11: when a job completes, the rows_processed of its history entry is the
\* number of rows submitted to the API, summed over all batches, those
\* answered by an error marker included.
C11_RowsProcessedIsSubmitted ==
  \A j \in Jobs :
    /\ (handler[j] = "try" /\ call[j].status = "completed") =>
         call[j].rows_processed = SubmittedRows(api_calls[j])
    /\ Completed(j) => CompletedEntry(j, SubmittedRows(api_calls[j])) \in Stored

\* a completed job that submitted fewer rows than its table has, in two
\* batches of which one was answered by an error marker
C11_Witness ==
  /\ Completed(1)
  /\ Len(api_calls[1]) >= 2
  /\ \E k \in 1..Len(api_calls[1]) : api_calls[1][k].response.status_code # 200
  /\ SubmittedRows(api_calls[1]) > 0
  /\ SubmittedRows(api_calls[1]) < Len(requests[1].rows)

----------------------------------------------------------------------------
(* C12 *)

\* ceil(n / BATCH_SIZE)
Windows(n) == (n + BATCH_SIZE - 1) \div BATCH_SIZE

\* the number of the window of row i, from 0
WindowOf(i) == (i - 1) \div BATCH_SIZE

\* job j is inside an iteration of the batch loop
InWindow(j) == handler[j] = "try" /\ pc[j] \in {"fetch", "merge", "sleep"}

\* the loop of job j has ended normally
LoopEnded(j) ==
  handler[j] = "try" /\ pc[j] \in {"to_csv", "load_history", "open_history",
                                   "dump_history", "set_status", "done"}

Increasing(seq) == \A a, b \in 1..Len(seq) : a < b => seq[a] < seq[b]

C12_Windows ==
  \A j \in Jobs :
    LET n == Len(df[j].rows)
        w == Window(df[j].rows, start[j])
    IN  /\ start[j] % BATCH_SIZE = 0
        /\ start[j] <= BATCH_SIZE * Windows(n)
        /\ InWindow(j) =>
             /\ start[j] < n
             /\ w = {i \in 1..n : WindowOf(i) = start[j] \div BATCH_SIZE}
             /\ Cardinality(w) <= BATCH_SIZE
             /\ Cardinality(w) < BATCH_SIZE => start[j] + BATCH_SIZE > n
             /\ Range(batch_indexes[j]) \subseteq w
             /\ Len(requests_batch[j]) = Len(batch_indexes[j])
             /\ Len(requests_batch[j]) <= BATCH_SIZE
        /\ LoopEnded(j) => start[j] = BATCH_SIZE * Windows(n)
        /\ \A k \in 1..Len(api_calls[j]) :
             LET c == api_calls[j][k]
             IN  /\ Len(c.indexes) <= BATCH_SIZE
                 /\ Increasing(c.indexes)
                 /\ \A a, b \in Range(c.indexes) : WindowOf(a) = WindowOf(b)
                 /\ k > 1 =>
                      \A a \in Range(api_calls[j][k - 1].indexes), b \in Range(c.indexes) :
                        WindowOf(a) < WindowOf(b)

\* C12: the n rows are processed in ceil(n / BATCH_SIZE) consecutive windows
\* taken in increasing order, each row in exactly one window, each window of
\* at most BATCH_SIZE rows and only the last one smaller; no POST carries
\* more than BATCH_SIZE records and the POSTs follow the input order.
C12_WindowsInOrder ==
  [][C12_Windows' /\ \A j \in Jobs : start'[j] \in {start[j], start[j] + BATCH_SIZE}]_vars

\* a completed job of 2 * BATCH_SIZE + 1 eligible rows: three POSTs of
\* BATCH_SIZE, BATCH_SIZE and 1 records
C12_Witness ==
  /\ Completed(1)
  /\ Len(requests[1].rows) = 2 * BATCH_SIZE + 1
  /\ Len(api_calls[1]) = 3
  /\ Len(api_calls[1][1].indexes) = BATCH_SIZE
  /\ Len(api_calls[1][2].indexes) = BATCH_SIZE
  /\ api_calls[1][3].indexes = <<2 * BATCH_SIZE + 1>>

----------------------------------------------------------------------------
(* C13 *)

\* an HTTP 422 answer, or another answer that is not 200 and whose body does
\* not speak of credits
Recoverable(response) ==
  /\ ~response.fault
  /\ response.status_code = 422 \/ (response.status_code # 200 /\ ~response.credits)

Marker(response) == IF response.status_code = 422 THEN "Validation Error" ELSE "API Error"

\* the POSTs of job j whose result has been merged into the table
Merged(j) ==
  IF pc[j] \in {"fetch", "merge"} /\ handler[j] = "try"
  THEN 1..(Len(api_calls[j]) - (IF pc[j] = "merge" THEN 1 ELSE 0))
  ELSE {k \in 1..Len(api_calls[j]) : handler[j] = "try" \/ k < Len(api_calls[j])}

\* C13: a batch answered by HTTP 422, or by another non-success answer without
\* the credits text, gets "Validation Error" / "API Error" on every row it
\* submitted and does not fail the job; a job whose only errors are of this
\* kind ends completed.
C13_BatchErrorIsRecoverable ==
  \A j \in Jobs :
    /\ \A k \in 1..Len(api_calls[j]) :
         LET c == api_calls[j][k]
         IN  Recoverable(c.response) =>
               /\ k = Len(api_calls[j]) => handler[j] = "try"
               /\ (k = Len(api_calls[j]) /\ pc[j] = "merge") =>
                     emails[j] = Repeat(Marker(c.response), Len(c.indexes))
               /\ k \in Merged(j) =>
                     \A i \in Range(c.indexes) :
                       df[j].rows[i]["Email"] = Marker(c.response)
    /\ (\A k \in 1..Len(api_calls[j]) : Recoverable(api_calls[j][k].response)) =>
         /\ api_calls[j] # <<>> => handler[j] = "try"
         /\ (pc[j] = "done" /\ api_calls[j] # <<>>) =>
              /\ Completed(j)
              /\ OutputWritten(j)
              /\ outputs[OutputName(j)].rows = df[j].rows

\* a completed job whose first batch was answered by 422 and whose second
\* batch by a non-success answer without the credits text
C13_Witness ==
  /\ Completed(1)
  /\ Len(api_calls[1]) >= 2
  /\ api_calls[1][1].response.status_code = 422
  /\ api_calls[1][2].response.status_code = 402
  /\ ~api_calls[1][2].response.credits
  /\ df[1].rows[1]["Email"] = "Validation Error"
  /\ df[1].rows[BATCH_SIZE + 1]["Email"] = "API Error"

----------------------------------------------------------------------------
(* C14 *)

\* the upload of job j was accepted and its table lacks a required column
MissingColumn(j) ==
  /\ pc[j] \notin {"idle", "rejected"}
  /\ requests[j].parseable
  /\ ~(Range(REQUIRED_HEADERS) \subseteq Range(requests[j].header))

\* C14: a table that lacks a required column fails the job before any POST
\* and without an output file, and a failed history entry with
\* rows_processed = 0 is appended.
C14_MissingColumnFails ==
  \A j \in Jobs :
    MissingColumn(j) =>
      /\ api_calls[j] = <<>>
      /\ ~OutputWritten(j)
      /\ ~Completed(j)
      /\ pc[j] \in {"start", "read_csv", "load_history", "open_history", "dump_history",
                    "set_status", "done"}
      /\ pc[j] \notin {"start", "read_csv"} =>
           /\ handler[j] = "except"
           /\ call[j] = [output_filename |-> "", status |-> "failed", rows_processed |-> 0]
      /\ pc[j] \in {"set_status", "done"} => FailedEntry(j) \in Stored
      /\ pc[j] = "done" => Failed(j)

\* a failed job whose table has every required column but Last Name
C14_Witness ==
  /\ MissingColumn(1)
  /\ requests[1].header = H_without("Last Name")
  /\ Failed(1)
  /\ FailedEntry(1) \in Stored
  /\ FailedEntry(1).rows_processed = 0

----------------------------------------------------------------------------
(* C15 *)

\* the positions of the entries of job j in a list of entries
EntriesOf(j, entries) == {i \in 1..Len(entries) : entries[i].id = j}

\* add_history_entry has returned to job j
Appended(j) == pc[j] \in {"set_status", "done"}

C15_OneEntry ==
  \A j \in Jobs :
    /\ Appended(j) =>
         /\ Cardinality(EntriesOf(j, history[j])) = 1
         /\ history[j][Len(history[j])] = Entry(j, call[j])
    /\ pc[j] \notin {"dump_history", "set_status", "done"} =>
         EntriesOf(j, history[j]) = {}
    /\ Cardinality(EntriesOf(j, load_history)) <= 1
    /\ \A i \in EntriesOf(j, load_history) : load_history[i] = Entry(j, call[j])
    /\ Completed(j) =>
         /\ Appended(j)
         /\ call[j].status = "completed"
         /\ call[j].output_filename = OutputName(j)
         /\ Entry(j, call[j]).status = "completed"
    /\ Failed(j) =>
         /\ Appended(j)
         /\ call[j].status = "failed"
         /\ call[j].output_filename = ""
         /\ Entry(j, call[j]).status = "failed"

\* C15: a run that reaches a terminal status has made exactly one append to
\* the history, whose status is the terminal status (completed with the
\* output name, failed with an empty output name), and an entry of the
\* history is never modified.
C15_EntryWrittenOnce ==
  [][/\ C15_OneEntry'
     /\ \A a \in Range(load_history), b \in Range(load_history') : a.id = b.id => a = b]_vars

\* one job completed and another failed, with both entries in the file
C15_Witness ==
  /\ Completed(1)
  /\ Failed(2)
  /\ CompletedEntry(1, 1) \in Stored
  /\ FailedEntry(2) \in Stored

----------------------------------------------------------------------------
(* C16 *)

\* the step of job j that merges the result of a POST into the table
MergeStep(j) == pc[j] = "merge" /\ pc'[j] = "sleep"

\* the position in the batch of row i, 0 when the row was not submitted
BatchPosition(j, i) ==
  IF \E k \in 1..Len(batch_indexes[j]) : batch_indexes[j][k] = i
  THEN CHOOSE k \in 1..Len(batch_indexes[j]) : batch_indexes[j][k] = i
  ELSE 0

\* C16: the k-th result of a POST is stored in the Email of the k-th eligible
\* row of the batch, at its position in the table, and the merge leaves every
\* other cell of the table as it was; no other step changes the table.
C16_MergeIsPositional ==
  [][\A j \in Jobs :
       /\ MergeStep(j) =>
            /\ batch_indexes[j] = BatchIndexes(df[j].rows, start[j])
            /\ batch_indexes[j] = api_calls[j][Len(api_calls[j])].indexes
            /\ df'[j].columns = df[j].columns
            /\ Len(df'[j].rows) = Len(df[j].rows)
            /\ \A i \in 1..Len(df[j].rows) :
                 LET k == BatchPosition(j, i)
                 IN  df'[j].rows[i] =
                       IF k = 0 THEN df[j].rows[i]
                       ELSE [df[j].rows[i] EXCEPT !["Email"] = emails[j][k]]
       /\ (~MergeStep(j) /\ pc[j] # "read_csv") => df'[j] = df[j]]_vars

\* the second batch of a table with ineligible rows has been merged: the
\* first and second address of the answer are in the first and second
\* eligible row of the window, and a row in between kept its empty Email
C16_Witness ==
  /\ pc[1] = "sleep"
  /\ start[1] = BATCH_SIZE
  /\ Len(batch_indexes[1]) >= 2
  /\ \E i \in Window(df[1].rows, start[1]) :
        /\ batch_indexes[1][1] < i
        /\ i < batch_indexes[1][Len(batch_indexes[1])]
        /\ i \notin Range(batch_indexes[1])
        /\ df[1].rows[i]["Email"] = ""
  /\ df[1].rows[batch_indexes[1][1]]["Email"] = EmailOf(1)
  /\ df[1].rows[batch_indexes[1][2]]["Email"] = EmailOf(2)

----------------------------------------------------------------------------
(* C17 *)

\* C17: while a job is not aborted, one delay of DELAY_SECONDS has been taken
\* after every window it has left, a window without eligible rows and the
\* last window included; two consecutive POSTs are at least one delay apart
\* and no POST carries an empty batch.
C17_OneDelayPerWindow ==
  \A j \in Jobs :
    /\ (handler[j] = "try" /\ pc[j] \in {"loop", "fetch", "merge", "sleep"}) =>
         elapsed[j] = DELAY_SECONDS * (start[j] \div BATCH_SIZE)
    /\ LoopEnded(j) => elapsed[j] = DELAY_SECONDS * Windows(Len(df[j].rows))
    /\ \A k \in 1..Len(api_calls[j]) :
         LET c == api_calls[j][k]
         IN  /\ c.indexes # <<>>
             /\ c.at = DELAY_SECONDS * WindowOf(c.indexes[1])
             /\ k > 1 => c.at - api_calls[j][k - 1].at >= DELAY_SECONDS

\* a completed job of three windows of which the second had no eligible row:
\* two POSTs two delays apart, and three delays in all
C17_Witness ==
  /\ Completed(1)
  /\ Len(df[1].rows) = 2 * BATCH_SIZE + 1
  /\ Len(api_calls[1]) = 2
  /\ api_calls[1][1].at = 0
  /\ api_calls[1][2].at = 2 * DELAY_SECONDS
  /\ elapsed[1] = 3 * DELAY_SECONDS

----------------------------------------------------------------------------
(* C18 *)

\* upload_file has started the thread of job j and returned
Submitted(j) == pc[j] \notin {"idle", "rejected"}

\* C18: once the submit call of a job has returned, a status query finds the
\* job registered, as running or with a terminal status.
C18_RegisteredOnReturn ==
  \A j \in Jobs :
    Submitted(j) => ProcessId(j) \in DOMAIN processing_status

----------------------------------------------------------------------------
(* C19 *)

\* add_history_entry(..., status, ...) has returned to job j: the list with
\* the entry has been dumped
AppendDone(j, status) ==
  /\ Appended(j)
  /\ call[j].status = status
  /\ Entry(j, call[j]) \in Range(history[j])

\* C19: in every state in which a poller can see a job completed, the output
\* file holds the whole final table and the completed history append has
\* been made; in every state in which it can see the job failed, the failed
\* history append has been made.
C19_StatusIsLast ==
  \A j \in Jobs :
    /\ Completed(j) =>
         /\ OutputWritten(j)
         /\ outputs[OutputName(j)] = [header |-> df[j].columns, rows |-> df[j].rows]
         /\ AppendDone(j, "completed")
    /\ Failed(j) => AppendDone(j, "failed")
    /\ reply = ReadyReply(CompletedStatus(j)) =>
         /\ OutputWritten(j)
         /\ AppendDone(j, "completed")

\* a poller has been told that job 1 is ready while job 2 is shown as failed
C19_Witness ==
  /\ reply = ReadyReply(CompletedStatus(1))
  /\ OutputWritten(1)
  /\ Failed(2)
  /\ AppendDone(2, "failed")

----------------------------------------------------------------------------
(* C20 *)

\* C20: a started job makes at most ceil(n / BATCH_SIZE) iterations of its
\* loop and then gets the completed or the failed status: its thread never
\* ends with the job still shown as running, also when an exception is
\* raised in the except handler.
C20_NeverStuckRunning ==
  \A j \in Jobs :
    /\ start[j] <= BATCH_SIZE * Windows(Len(df[j].rows))
    /\ (Submitted(j) /\ Ended(j)) => Completed(j) \/ Failed(j)

====
